---------------------------- MODULE Spec2Model ----------------------------
(***************************************************************************)
(* A model of mt10x.py: the MT10x message parser and its four sub-parsers  *)
(* (BasicHeader, ApplicationHeader, UserHeader, Text).                     *)
(*                                                                         *)
(* A Python str is a sequence of one-character strings.  A Python value    *)
(* that may be None is a sequence of length at most one: None is << >>,    *)
(* and the value v is << v >>.  So the empty str "" held by an attribute   *)
(* is << << >> >>, which differs from None.                                *)
(*                                                                         *)
(* The regular expressions of the source are kept as syntax trees and are  *)
(* run by a backtracking matcher that tries the alternatives in the order  *)
(* Python's re module tries them (greedy: longest first, lazy: shortest    *)
(* first), so that the captured groups are those Python reports.           *)
(***************************************************************************)
EXTENDS Integers, Sequences, FiniteSets, TLC

None == << >>
Some(v) == << v >>
IsNone(o) == o = << >>
IsSome(o) == o # << >>
Get(o) == o[1]

Min(a, b) == IF a < b THEN a ELSE b
(***************************************************************************)
(* Character classes.                                                      *)
(***************************************************************************)
Digit == {"0", "1", "2", "3", "4", "5", "6", "7", "8", "9"}
Upper == {"A", "B", "C", "D", "E", "F", "G", "H", "I", "J", "K", "L", "M",
          "N", "O", "P", "Q", "R", "S", "T", "U", "V", "W", "X", "Y", "Z"}
Lower == {"a", "b", "c", "d", "e", "f", "g", "h", "i", "j", "k", "l", "m",
          "n", "o", "p", "q", "r", "s", "t", "u", "v", "w", "x", "y", "z"}
AlNum == Lower \cup Upper \cup Digit
\* what str.strip() removes and what \s matches (the ASCII part)
Space == {" ", "\t", "\n", "\r", "\f"}

(***************************************************************************)
(* Python string operations.                                               *)
(***************************************************************************)
\* s[a:b - 1]: a slice that stops one character early
SliceOneShort(s, a, b) ==
    IF a >= Len(s) THEN << >> ELSE SubSeq(s, a + 1, Min(b - 1, Len(s)))

\* s[a:b] for 0 <= a <= b: a slice is clamped to the string, it never faults
Slice(s, a, b) == IF a >= Len(s) THEN << >> ELSE SubSeq(s, a + 1, Min(b, Len(s)))

RECURSIVE LStrip(_)
LStrip(s) == IF s # << >> /\ Head(s) \in Space THEN LStrip(Tail(s)) ELSE s

RECURSIVE RStrip(_)
RStrip(s) ==
    IF s # << >> /\ s[Len(s)] \in Space THEN RStrip(SubSeq(s, 1, Len(s) - 1)) ELSE s

\* a strip() that forgets the trailing white space
StripLeftOnly(s) == LStrip(s)

\* str.strip()
Strip(s) == RStrip(LStrip(s))

\* a test for None only, which takes the empty str for a value
NotNone(o) == IsSome(o)

\* bool(s) of a str or None: the empty str and None are falsy
Truthy(o) == IsSome(o) /\ Get(o) # << >>

(***************************************************************************)
(* Regular expression syntax trees.  name is the named group a node is     *)
(* the whole content of, "" when it is none.                               *)
(***************************************************************************)
Lit(s) == [t |-> "lit", s |-> s]
\* C{lo,hi} for a character class C: the characters in S (neg FALSE) or not
\* in S (neg TRUE); hi = -1 is no upper limit; lazy is C{lo,hi}?
Chars(S, neg, lo, hi, lazy) ==
    [t |-> "chars", S |-> S, neg |-> neg, lo |-> lo, hi |-> hi, lazy |-> lazy,
     name |-> ""]
In(S) == Chars(S, FALSE, 1, 1, FALSE)
InRep(S, lo, hi) == Chars(S, FALSE, lo, hi, FALSE)
InStar(S) == Chars(S, FALSE, 0, -1, FALSE)
InPlus(S) == Chars(S, FALSE, 1, -1, FALSE)
NotInStar(S) == Chars(S, TRUE, 0, -1, FALSE)
NotInPlus(S) == Chars(S, TRUE, 1, -1, FALSE)
\* . under re.DOTALL is any character: .*? and .+? and .+
DotLazyStar == Chars({}, TRUE, 0, -1, TRUE)
DotLazyPlus == Chars({}, TRUE, 1, -1, TRUE)
DotPlus == Chars({}, TRUE, 1, -1, FALSE)
\* (a|b|...) for strs a, b, ...
OneOf(lits) == [t |-> "oneof", lits |-> lits, name |-> ""]
Cat(ns) == [t |-> "cat", ns |-> ns]
\* (X)?
Opt(n) == [t |-> "opt", n |-> n]
\* (X)* and (X)*? for an X that never matches the empty string
Star(n) == [t |-> "star", n |-> n, lazy |-> FALSE]
LazyStar(n) == [t |-> "star", n |-> n, lazy |-> TRUE]
\* (?P<name>X)
Group(name, n) ==
    IF n.t \in {"chars", "oneof"} THEN [n EXCEPT !.name = name]
    ELSE [t |-> "group", name |-> name, n |-> n]
GroupEnd(name, from) == [t |-> "groupend", name |-> name, from |-> from]
\* (?=X)
Look(n) == [t |-> "look", n |-> n]
\* an end of pattern that is met at every position: match() without the $
EndAnywhere == Look(Cat(<< >>))

Bol == [t |-> "bol"]
Eol == [t |-> "eol"]

NoMatch == [ok |-> FALSE]

HasAt(s, pos, lit) ==
    /\ pos + Len(lit) - 1 <= Len(s)
    /\ \A i \in 1..Len(lit) : s[pos + i - 1] = lit[i]

InClass(c, n) == IF n.neg THEN c \notin n.S ELSE c \in n.S

\* how many characters from pos on are in the class of n, up to n.hi
RunLength(s, pos, n) ==
    LET avail == Len(s) - pos + 1
        cap == IF n.hi = -1 THEN avail ELSE Min(n.hi, avail)
    IN  CHOOSE k \in 0..cap :
            /\ \A i \in 1..k : InClass(s[pos + i - 1], n)
            /\ k = cap \/ ~InClass(s[pos + k], n)

\* the nodes of n when n is a concatenation
Nodes(n) == IF n.t = "cat" THEN n.ns ELSE << n >>

\* caps after the group name, if any, has captured s[from .. to - 1]
Captured(caps, name, s, from, to) ==
    IF name = "" THEN caps ELSE [caps EXCEPT ![name] = Some(SubSeq(s, from, to - 1))]

\* an optional or repeated part that starts with a literal which is not at
\* pos can only be left out
CannotStart(s, pos, n) ==
    /\ n.t \in {"opt", "star"}
    /\ Head(Nodes(n.n)).t = "lit"
    /\ ~HasAt(s, pos, Head(Nodes(n.n)).s)

\* the index of the first node of todo that is not left out that way
FirstToRun(s, pos, todo) ==
    CHOOSE i \in 1..(Len(todo) + 1) :
        /\ i = Len(todo) + 1 \/ ~CannotStart(s, pos, todo[i])
        /\ \A j \in 1..(i - 1) : CannotStart(s, pos, todo[j])

\* the nodes of n that are left once its first literal, if it starts with
\* one, is matched at pos, and the position after it
AfterLit(s, pos, n) ==
    LET ns == Nodes(n)
    IN  IF Head(ns).t = "lit" /\ HasAt(s, pos, Head(ns).s)
        THEN [ns |-> Tail(ns), pos |-> pos + Len(Head(ns).s)]
        ELSE [ns |-> ns, pos |-> pos]

\* the result of the preferred one of tries, a set of << rank, result >>:
\* the successful one of the least rank
Preferred(tries) ==
    LET good == {p \in tries : p[2].ok}
    IN  IF good = {} THEN NoMatch
        ELSE (CHOOSE p \in good : \A q \in good : p[1] <= q[1])[2]

(***************************************************************************)
(* The backtracking matcher.  todo is the sequence of nodes still to be    *)
(* matched from position pos (1-based) of s; caps maps each named group to *)
(* None or to what it captured last.  The result is the first complete     *)
(* match in Python's order of preference, or NoMatch: a greedy repetition  *)
(* takes the largest count with which the rest matches, a lazy one the     *)
(* smallest, an alternation its first alternative with which it does.      *)
(***************************************************************************)
RECURSIVE Run(_, _, _, _)
Run(s, todo, pos, caps) ==
    LET i == FirstToRun(s, pos, todo)
    IN
    IF i > Len(todo) THEN [ok |-> TRUE, caps |-> caps, end |-> pos]
    ELSE
    LET n == todo[i]
        rest == SubSeq(todo, i + 1, Len(todo))
    IN  CASE n.t = "lit" ->
               IF HasAt(s, pos, n.s) THEN Run(s, rest, pos + Len(n.s), caps)
               ELSE NoMatch
          [] n.t = "chars" ->
               Preferred({<< IF n.lazy THEN k ELSE -k,
                             Run(s, rest, pos + k,
                                 Captured(caps, n.name, s, pos, pos + k)) >> :
                            k \in n.lo..RunLength(s, pos, n)})
          [] n.t = "oneof" ->
               Preferred({<< a,
                             IF HasAt(s, pos, n.lits[a])
                             THEN Run(s, rest, pos + Len(n.lits[a]),
                                      Captured(caps, n.name, s, pos,
                                               pos + Len(n.lits[a])))
                             ELSE NoMatch >> :
                            a \in 1..Len(n.lits)})
          [] n.t = "cat" -> Run(s, n.ns \o rest, pos, caps)
          [] n.t = "opt" ->
               LET body == AfterLit(s, pos, n.n)
                   r == Run(s, body.ns \o rest, body.pos, caps)
               IN  IF r.ok THEN r ELSE Run(s, rest, pos, caps)
          [] n.t = "star" ->
               LET body == AfterLit(s, pos, n.n)
               IN  IF n.lazy
                   THEN LET r == Run(s, rest, pos, caps)
                        IN  IF r.ok THEN r
                            ELSE Run(s, body.ns \o << n >> \o rest, body.pos, caps)
                   ELSE LET r == Run(s, body.ns \o << n >> \o rest, body.pos, caps)
                        IN  IF r.ok THEN r ELSE Run(s, rest, pos, caps)
          [] n.t = "group" ->
               Run(s, Nodes(n.n) \o << GroupEnd(n.name, pos) >> \o rest, pos, caps)
          [] n.t = "groupend" ->
               Run(s, rest, pos, Captured(caps, n.name, s, n.from, pos))
          [] n.t = "look" ->
               LET r == Run(s, << n.n >>, pos, caps)
               IN  IF r.ok THEN Run(s, rest, pos, r.caps) ELSE NoMatch
          [] n.t = "bol" ->
               IF pos = 1 THEN Run(s, rest, pos, caps) ELSE NoMatch
          [] n.t = "eol" ->
               \* $ without re.MULTILINE: at the end, or before a final newline
               IF pos = Len(s) + 1 \/ (pos = Len(s) /\ s[pos] = "\n")
               THEN Run(s, rest, pos, caps) ELSE NoMatch

\* pattern.match(s) for a pattern with the named groups names
Match(re, names, s) == Run(s, Nodes(re), 1, [g \in names |-> None])

(***************************************************************************)
(* MT10x.MESSAGE_REGEX                                                     *)
(***************************************************************************)
\* [a-zA-Z0-9]{8}-[a-zA-Z0-9]{4}-4[a-zA-Z0-9]{3}-[89ab][a-zA-Z0-9]{3}-[a-zA-Z0-9]{12}
UetrRegex ==
    Cat(<< InRep(AlNum, 8, 8), Lit(<<"-">>),
           InRep(AlNum, 4, 4), Lit(<<"-">>),
           Lit(<<"4">>), InRep(AlNum, 3, 3), Lit(<<"-">>),
           In({"8", "9", "a", "b"}), InRep(AlNum, 3, 3), Lit(<<"-">>),
           InRep(AlNum, 12, 12) >>)

MessageGroups == {"basic_header", "application_header", "user_header", "text", "trailer"}

\* block 2 without its I or O: ({2:(?P<application_header>[^}]+)})?
ApplicationHeaderBlockAny ==
    Opt(Cat(<< Lit(<<"{", "2", ":">>), Group("application_header", NotInPlus({"}"})),
               Lit(<<"}">>) >>))

\* ({2:(?P<application_header>(I|O)[^}]+)})?
ApplicationHeaderBlock ==
    Opt(Cat(<< Lit(<<"{", "2", ":">>),
               Group("application_header",
                     Cat(<< OneOf(<< <<"I">>, <<"O">> >>), NotInPlus({"}"}) >>)),
               Lit(<<"}">>) >>))

MESSAGE_REGEX ==
    Cat(<<
      Bol,
      Opt(Cat(<< Lit(<<"{", "1", ":">>), Group("basic_header", NotInPlus({"}"})), Lit(<<"}">>) >>)),
      ApplicationHeaderBlock,
      Opt(Cat(<< Lit(<<"{", "3", ":">>),
                 Group("user_header", Cat(<<
                   Opt(Cat(<< Lit(<<"{", "1", "1", "3", ":">>), InRep(Upper, 4, 4), Lit(<<"}">>) >>)),
                   Opt(Cat(<< Lit(<<"{", "1", "0", "8", ":">>), InRep(Upper \cup {" "} \cup Digit, 0, 16),
                              Lit(<<"}">>) >>)),
                   Opt(Cat(<< Lit(<<"{", "1", "1", "1", ":">>), InRep(Digit, 3, 3), Lit(<<"}">>) >>)),
                   Opt(Cat(<< Lit(<<"{", "1", "2", "1", ":">>), UetrRegex, Lit(<<"}">>) >>)) >>)),
                 Lit(<<"}">>) >>)),
      Opt(Cat(<< Lit(<<"{", "4", ":">>), InStar(Space), Group("text", DotLazyPlus),
                 InStar(Space), Lit(<<"-", "}">>) >>)),
      Opt(Cat(<< Lit(<<"{", "5", ":">>), Group("trailer", DotPlus), Lit(<<"}">>) >>)),
      Eol >>)

(***************************************************************************)
(* UserHeader.REGEX                                                        *)
(***************************************************************************)
UserHeaderGroups == {"bpc", "mur", "sti", "uetr"}

\* the four optional groups, in the order of the pattern
UserHeaderBlocks ==
    << Opt(Cat(<< Lit(<<"{", "1", "1", "3", ":">>), Group("bpc", InRep(Upper, 4, 4)),
                  Lit(<<"}">>) >>)),
       Opt(Cat(<< Lit(<<"{", "1", "0", "8", ":">>),
                  Group("mur", InRep(Upper \cup Digit, 0, 16)), Lit(<<"}">>) >>)),
       Opt(Cat(<< Lit(<<"{", "1", "1", "1", ":">>), Group("sti", InRep(Digit, 3, 3)),
                  Lit(<<"}">>) >>)),
       Opt(Cat(<< Lit(<<"{", "1", "2", "1", ":">>), Group("uetr", UetrRegex),
                  Lit(<<"}">>) >>)) >>

UserHeaderREGEX == Cat(<< Bol >> \o UserHeaderBlocks \o << Eol >>)

(***************************************************************************)
(* Text.REGEX                                                              *)
(***************************************************************************)
\* the attributes Text.__init__ creates, apart from date
TextFields ==
    {"senders_reference", "bank_operation_code", "instruction_code",
     "transaction_type_code", "interbank_settled_currency",
     "interbank_settled_amount", "original_ordered_currency",
     "original_ordered_amount", "exchange_rate", "ordering_customer",
     "sending_institution", "ordering_institution", "sender_correspondent",
     "receiver_correspondent", "intermediary", "account_with_institution",
     "beneficiary", "remittance_information", "details_of_charges",
     "sender_charges", "receiver_charges", "sender_to_receiver_information",
     "regulatory_reporting"}

TimeGroups ==
    {"time_indication_class", "time_indication_time", "time_indication_sign",
     "time_indication_offset"}

DateGroups == {"date_year", "date_month", "date_day"}

TextGroups == TextFields \cup TimeGroups \cup DateGroups

\* (?=(:\d\d)?)
NextTagLook == Look(Opt(Cat(<< Lit(<<":">>), In(Digit), In(Digit) >>)))

\* (TAG(?P<name>.*?)\s*(?=(:\d\d)?))?  where TAG is :NN + one of letters + :
FreeText(digits, letters, name) ==
    Opt(Cat(<< Lit(<<":">> \o digits),
               IF letters = {} THEN Cat(<< >>) ELSE In(letters),
               Lit(<<":">>),
               Group(name, DotLazyStar), InStar(Space), NextTagLook >>))

\* (TAG(?P<name>[^:]*))
NoColon(tag, name) == Cat(<< Lit(tag), Group(name, NotInStar({":"})) >>)

TextREGEX ==
    Cat(<<
      Bol,
      Opt(Cat(<< Lit(<<":", "2", "0", ":">>), Group("senders_reference", NotInPlus(Space \cup {":"})),
                 InStar(Space) >>)),
      LazyStar(Cat(<< Lit(<<":", "1", "3", "C", ":", "/">>),
                      Group("time_indication_class",
                            OneOf(<< <<"C", "L", "S", "T", "I", "M", "E">>, <<"R", "N", "C", "T", "I", "M", "E">>, <<"S", "N", "D", "T", "I", "M", "E">> >>)),
                      Lit(<<"/">>),
                      Group("time_indication_time", InRep(Digit, 4, 4)),
                      Group("time_indication_sign", In({"+", "-"})),
                      Group("time_indication_offset", InRep(Digit, 4, 4)),
                      NotInStar({":"}) >>)),
      Opt(Cat(<< Lit(<<":", "2", "3", "B", ":">>), Group("bank_operation_code", NotInPlus(Space \cup {":"})),
                 InStar(Space) >>)),
      Opt(NoColon(<<":", "2", "3", "E", ":">>, "instruction_code")),
      Opt(NoColon(<<":", "2", "6", "T", ":">>, "transaction_type_code")),
      Opt(Cat(<< Lit(<<":", "3", "2", "A", ":">>),
                 Group("date_year", InRep(Digit, 2, 2)),
                 Group("date_month", InRep(Digit, 2, 2)),
                 Group("date_day", InRep(Digit, 2, 2)),
                 Group("interbank_settled_currency", InRep(Upper, 3, 3)),
                 Group("interbank_settled_amount", InPlus(Digit \cup {","})),
                 InStar(Space) >>)),
      Opt(Cat(<< Lit(<<":", "3", "3", "B", ":">>),
                 Group("original_ordered_currency", InRep(Upper, 3, 3)),
                 Group("original_ordered_amount", InPlus(Digit \cup {","})),
                 InStar(Space) >>)),
      Opt(NoColon(<<":", "3", "6", ":">>, "exchange_rate")),
      FreeText(<<"5", "0">>, {"A", "F", "K"}, "ordering_customer"),
      Opt(NoColon(<<":", "5", "1", "A", ":">>, "sending_institution")),
      FreeText(<<"5", "2">>, {"A", "D"}, "ordering_institution"),
      Opt(Cat(<< Lit(<<":", "5", "3">>), In({"A", "B", "D"}), Lit(<<":">>),
                 Group("sender_correspondent", NotInStar(Space \cup {":"})),
                 InStar(Space) >>)),
      FreeText(<<"5", "4">>, {"A", "B", "D"}, "receiver_correspondent"),
      FreeText(<<"5", "6">>, {"A", "C", "D"}, "intermediary"),
      FreeText(<<"5", "7">>, {"A", "B", "C", "D"}, "account_with_institution"),
      Opt(Cat(<< Lit(<<":", "5", "9">>), Opt(Lit(<<"A">>)), Lit(<<":">>),
                 Group("beneficiary", DotLazyStar), InStar(Space), NextTagLook >>)),
      FreeText(<<"7", "0">>, {}, "remittance_information"),
      FreeText(<<"7", "1">>, {"A"}, "details_of_charges"),
      Star(NoColon(<<":", "7", "1", "F", ":">>, "sender_charges")),
      Opt(NoColon(<<":", "7", "1", "G", ":">>, "receiver_charges")),
      FreeText(<<"7", "2">>, {}, "sender_to_receiver_information"),
      FreeText(<<"7", "7">>, {"B"}, "regulatory_reporting"),
      Eol >>)

(***************************************************************************)
(* The classes.  An object is a record of its attributes; _boolean is the  *)
(* attribute boolean.                                                      *)
(***************************************************************************)
\* x or "" for a str or None x
OrEmpty(o) == IF Truthy(o) THEN Get(o) ELSE << >>

\* BasicHeader(raw)
BasicHeader(raw) ==
    LET new == [raw |-> raw,
                application_id |-> None,
                service_id |-> None,
                logical_terminal_address |-> None,
                session_number |-> None,
                sequence_number |-> None,
                boolean |-> FALSE]
    IN  IF ~Truthy(raw) THEN new
        ELSE [new EXCEPT !.boolean = Truthy(raw),
                         !.application_id = Some(Slice(Get(raw), 0, 1)),
                         !.service_id = Some(Slice(Get(raw), 1, 3)),
                         !.logical_terminal_address = Some(Slice(Get(raw), 3, 15)),
                         !.session_number = Some(Slice(Get(raw), 15, 19)),
                         !.sequence_number = Some(Slice(Get(raw), 19, 25))]

\* ApplicationHeader(raw)
ApplicationHeader(raw) ==
    LET new == [raw |-> raw,
                input_output |-> None,
                swift_message_type |-> None,
                destination_address |-> None,
                priority |-> None,
                delivery_monitoring |-> None,
                obsolescence_period |-> None,
                boolean |-> FALSE]
    IN  IF ~Truthy(raw) THEN new
        ELSE [new EXCEPT !.boolean = Truthy(raw),
                         !.input_output = Some(Slice(Get(raw), 0, 1)),
                         !.swift_message_type = Some(Slice(Get(raw), 1, 4)),
                         !.destination_address = Some(Slice(Get(raw), 4, 16)),
                         !.priority = Some(Slice(Get(raw), 16, 17)),
                         !.delivery_monitoring = Some(Slice(Get(raw), 17, 18)),
                         !.obsolescence_period = Some(Slice(Get(raw), 18, 21))]

\* UserHeader(raw)
UserHeader(raw) ==
    LET new == [raw |-> raw,
                bank_priority_code |-> None,
                message_user_reference |-> None,
                service_type_identifier |-> None,
                unique_end_to_end_transaction_reference |-> None,
                boolean |-> FALSE]
    IN  IF ~Truthy(raw) THEN new
        ELSE LET m == Match(UserHeaderREGEX, UserHeaderGroups, Get(raw))
             IN  IF ~m.ok THEN [new EXCEPT !.boolean = FALSE]
                 ELSE [new EXCEPT
                         !.boolean = TRUE,
                         !.bank_priority_code = m.caps["bpc"],
                         !.message_user_reference = m.caps["mur"],
                         !.service_type_identifier = m.caps["sti"],
                         !.unique_end_to_end_transaction_reference = m.caps["uetr"]]

DigitValue(c) ==
    CASE c = "0" -> 0 [] c = "1" -> 1 [] c = "2" -> 2 [] c = "3" -> 3 [] c = "4" -> 4
      [] c = "5" -> 5 [] c = "6" -> 6 [] c = "7" -> 7 [] c = "8" -> 8 [] c = "9" -> 9

\* int(x) for x None or a str of two digits: an exception or a value
IntOf(o) ==
    IF IsNone(o) THEN [exc |-> Some("TypeError"), v |-> 0]
    ELSE [exc |-> None, v |-> 10 * DigitValue(Get(o)[1]) + DigitValue(Get(o)[2])]

IsLeap(y) == y % 4 = 0 /\ (y % 100 # 0 \/ y % 400 = 0)

DaysInMonth(y, m) ==
    IF m = 2 THEN (IF IsLeap(y) THEN 29 ELSE 28)
    ELSE IF m \in {4, 6, 9, 11} THEN 30 ELSE 31

\* datetime.date(y, m, d): a date, or ValueError
DateOf(y, m, d) ==
    IF y >= 1 /\ y <= 9999 /\ m >= 1 /\ m <= 12 /\ d >= 1 /\ d <= DaysInMonth(y, m)
    THEN [exc |-> None, v |-> << y, m, d >>]
    ELSE [exc |-> Some("ValueError"), v |-> << >>]

\* date(2000 + int(m.group("date_year")), int(...month), int(...day))
DateFromGroups(caps) ==
    LET y == IntOf(caps["date_year"])
        mo == IntOf(caps["date_month"])
        d == IntOf(caps["date_day"])
    IN  IF IsSome(y.exc) THEN [exc |-> y.exc, v |-> << >>]
        ELSE IF IsSome(mo.exc) THEN [exc |-> mo.exc, v |-> << >>]
        ELSE IF IsSome(d.exc) THEN [exc |-> d.exc, v |-> << >>]
        ELSE DateOf(2000 + y.v, mo.v, d.v)

\* except ValueError alone
DateExceptValueError == {"ValueError"}

\* except (ValueError, TypeError)
DateExcept == {"ValueError", "TypeError"}

\* the loop over m.groupdict(): the attribute k gets the value v of group k
\* unless v is None, k starts with date_ or the object has no attribute k
SetAttrs(caps) ==
    [k \in TextFields |->
        IF k \in DOMAIN caps /\ IsSome(caps[k]) /\ k \notin DateGroups
        THEN caps[k] ELSE None]

\* Text(raw); fault is the exception that leaves the constructor, if any
Text(raw) ==
    LET new == [raw |-> raw,
                fields |-> [k \in TextFields |-> None],
                date |-> None,
                boolean |-> FALSE,
                fault |-> None]
    IN  IF ~Truthy(raw) THEN new
        ELSE LET m == Match(TextREGEX, TextGroups, Get(raw))
             IN  IF ~m.ok THEN [new EXCEPT !.boolean = FALSE]
                 ELSE LET d == DateFromGroups(m.caps)
                      IN  [new EXCEPT
                             !.boolean = TRUE,
                             !.fields = SetAttrs(m.caps),
                             !.date = IF IsNone(d.exc) THEN Some(d.v) ELSE None,
                             !.fault = IF IsSome(d.exc) /\ Get(d.exc) \notin DateExcept
                                       THEN d.exc ELSE None]

\* MT10x(message)
MT10x(message) ==
    LET raw == Strip(IF IsNone(message) THEN << >> ELSE Get(message))
        new == [raw |-> Some(raw),
                basic_header |-> None,
                application_header |-> None,
                user_header |-> None,
                text |-> None,
                trailer |-> None,
                boolean |-> FALSE]
    IN  IF raw = << >> THEN new
        ELSE LET m == Match(MESSAGE_REGEX, MessageGroups, raw)
             IN  IF ~m.ok THEN [new EXCEPT !.boolean = FALSE]
                 ELSE [new EXCEPT
                         !.boolean = TRUE,
                         !.basic_header =
                             Some(BasicHeader(Some(OrEmpty(m.caps["basic_header"])))),
                         !.application_header =
                             Some(ApplicationHeader(m.caps["application_header"])),
                         !.trailer = m.caps["trailer"],
                         !.user_header =
                             Some(UserHeader(Some(OrEmpty(m.caps["user_header"])))),
                         !.text = Some(Text(Some(OrEmpty(m.caps["text"]))))]

(***************************************************************************)
(* The inputs.  A constructor's argument is None or a str made of at most  *)
(* a bounded number of pieces, the pieces being the parts of the format    *)
(* (blocks, tags, values, white space) and parts that break it.            *)
(***************************************************************************)
MaxMessageParts == 3
MaxUserHeaderParts == 3
MaxTextParts == 3
MaxHeaderLen == 27

RECURSIVE Flatten(_)
Flatten(ps) == IF ps = << >> THEN << >> ELSE Head(ps) \o Flatten(Tail(ps))

\* the strs made of at most n pieces out of P
Joined(P, n) == {Flatten(ps) : ps \in UNION {[1..k -> P] : k \in 0..n}}

\* s with the character at index i (0-based) replaced by c
SetAt(s, i, c) == [s EXCEPT ![i + 1] = c]

SampleUetr == <<"d", "2", "d", "6", "2", "e", "7", "4", "-", "4", "f", "7", "d", "-", "4", "5", "d", "c", "-", "a", "2", "3", "0", "-", "8", "5", "f", "a", "2", "5", "9", "e", "1", "6", "9", "4">>

\* the sample reference and one-character changes of it: other letters and
\* digits, another version or variant character, a hyphen moved or missing
UetrValues ==
    {SampleUetr, SubSeq(SampleUetr, 1, 35)}
    \cup {SetAt(SampleUetr, e[1], e[2]) :
            e \in {<< 0, "g" >>, << 0, "Z" >>, << 0, "D" >>, << 35, "G" >>,
                   << 14, "5" >>, << 19, "8" >>, << 19, "b" >>, << 19, "c" >>,
                   << 19, "A" >>, << 8, "0" >>, << 3, "-" >>, << 0, "_" >>}}

UserHeaderParts(uetr) ==
    {<<"{", "1", "1", "3", ":", "S", "E", "P", "A", "}">>, <<"{", "1", "1", "3", ":", "S", "E", "p", "}">>, <<"{", "1", "0", "8", ":", "M", "T", "1", "0", "3", "}">>, <<"{", "1", "0", "8", ":", "}">>, <<"{", "1", "1", "1", ":", "0", "0", "1", "}">>,
     <<"{", "1", "2", "1", ":">> \o uetr \o <<"}">>, <<"\n">>, <<" ">>}

\* YYMMDD: real dates, and a month 13, a 29 February of a common year, a day 00
SettlementDates == {<<"1", "8", "0", "1", "1", "7">>, <<"0", "0", "0", "2", "2", "9">>, <<"1", "8", "1", "3", "1", "7">>, <<"1", "9", "0", "2", "2", "9">>, <<"1", "8", "0", "1", "0", "0">>}

TextParts(yymmdd) ==
    {<<":", "2", "0", ":", "R", "E", "F", "1">>, <<":", "2", "3", "E", ":", "A", "B">>, <<":", "3", "2", "A", ":">> \o yymmdd \o <<"U", "S", "D", "1", ",", "5">>,
     <<":", "1", "3", "C", ":", "/", "C", "L", "S", "T", "I", "M", "E", "/", "0", "9", "1", "5", "+", "0", "1", "0", "0">>, <<":", "5", "9", ":", "N", "A", "M", "E", "\n", "C", "I", "T", "Y">>, <<":", "7", "0", ":", "A", ":", "B">>, <<":", "7", "1", "F", ":", "U", "S", "D", "1", ",">>,
     <<":", "9", "9", ":", "Z">>, <<" ">>, <<"\n">>}

MessageParts ==
    {<<"{", "1", ":", "F", "0", "1", "}">>, <<"{", "2", ":", "I", "1", "0", "3", "}">>, <<"{", "2", ":", "X", "1", "0", "3", "}">>, <<"{", "3", ":", "{", "1", "0", "8", ":", "M", "T", " ", "1", "}", "}">>, <<"{", "4", ":">>, <<"\n", ":", "2", "0", ":", "R", "\n">>,
     <<"-", "}">>, <<"{", "5", ":", "C", "H", "K", "}">>, <<" ">>, <<"x">>}

SampleBasicHeader == <<"F", "0", "1", "A", "S", "D", "F", "J", "K", "2", "0", "A", "X", "X", "X", "0", "9", "8", "7", "6", "5", "4", "3", "2", "1">>
SampleApplicationHeader == <<"I", "1", "0", "3", "A", "S", "D", "F", "J", "K", "2", "2", "X", "X", "X", "X", "N", "2", "0", "0", "3">>

\* the first n characters of the sample repeated without end
Cycled(sample, n) == [i \in 1..n |-> sample[((i - 1) % Len(sample)) + 1]]

HeaderInputs(sample) ==
    {Cycled(sample, n) : n \in 0..MaxHeaderLen} \cup {<<" ">>, <<"\n">>, <<" ", "\n", " ">>}

Kinds == {"MT10x", "BasicHeader", "ApplicationHeader", "UserHeader", "Text"}

Strs(k) ==
    CASE k = "MT10x" -> Joined(MessageParts, MaxMessageParts)
      [] k = "BasicHeader" -> HeaderInputs(SampleBasicHeader)
      [] k = "ApplicationHeader" -> HeaderInputs(SampleApplicationHeader)
      [] k = "UserHeader" ->
           UNION {Joined(UserHeaderParts(u), MaxUserHeaderParts) : u \in UetrValues}
      [] k = "Text" ->
           UNION {Joined(TextParts(d), MaxTextParts) : d \in SettlementDates}

Inputs(k) == {None} \cup {Some(s) : s \in Strs(k)}

(***************************************************************************)
(* The state: the class being constructed and the argument given (kind,    *)
(* arg), the caller's position (pc), the object (obj), what str(obj) and   *)
(* bool(obj) returned last (out, truth) and the exception that reached the *)
(* caller (fault).                                                         *)
(***************************************************************************)
VARIABLES kind, arg, pc, obj, out, truth, fault

vars == << kind, arg, pc, obj, out, truth, fault >>

InitOf(k) ==
    /\ kind = k
    /\ arg \in Inputs(k)
    /\ pc = "new"
    /\ obj = None
    /\ out = None
    /\ truth = None
    /\ fault = None

Init == \E k \in Kinds : InitOf(k)

Built(o) ==
    /\ pc = "new"
    /\ pc' = "built"
    /\ obj' = Some(o)
    /\ UNCHANGED << kind, arg, out, truth >>

NewMT10x ==
    /\ kind = "MT10x"
    /\ LET o == MT10x(arg)
       IN  /\ Built(o)
           /\ fault' = IF IsSome(o.text) THEN Get(o.text).fault ELSE None

NewBasicHeader ==
    /\ kind = "BasicHeader"
    /\ Built(BasicHeader(arg))
    /\ fault' = None

NewApplicationHeader ==
    /\ kind = "ApplicationHeader"
    /\ Built(ApplicationHeader(arg))
    /\ fault' = None

NewUserHeader ==
    /\ kind = "UserHeader"
    /\ Built(UserHeader(arg))
    /\ fault' = None

NewText ==
    /\ kind = "Text"
    /\ LET o == Text(arg)
       IN  /\ Built(o)
           /\ fault' = o.fault

\* str(obj): __str__ returns self.raw, and str() raises TypeError for a None
Str ==
    /\ pc = "built"
    /\ IsNone(out) /\ IsNone(fault)
    /\ IF IsNone(Get(obj).raw)
       THEN fault' = Some("TypeError") /\ out' = out
       ELSE fault' = fault /\ out' = Get(obj).raw
    /\ UNCHANGED << kind, arg, pc, obj, truth >>

\* bool(obj): __bool__ returns self._boolean
Bool ==
    /\ pc = "built"
    /\ IsNone(truth)
    /\ truth' = Some(Get(obj).boolean)
    /\ UNCHANGED << kind, arg, pc, obj, out, fault >>

Next ==
    \/ NewMT10x
    \/ NewBasicHeader
    \/ NewApplicationHeader
    \/ NewUserHeader
    \/ NewText
    \/ Str
    \/ Bool

Spec == Init /\ [][Next]_vars

NextMT10x == NewMT10x \/ Str \/ Bool
SpecMT10x == InitOf("MT10x") /\ [][NextMT10x]_vars

NextUserHeader == NewUserHeader \/ Str \/ Bool
SpecUserHeader == InitOf("UserHeader") /\ [][NextUserHeader]_vars

NextText == NewText \/ Str \/ Bool
SpecText == InitOf("Text") /\ [][NextText]_vars

NextHeaders == NewBasicHeader \/ NewApplicationHeader \/ Str \/ Bool
SpecHeaders ==
    /\ InitOf("BasicHeader") \/ InitOf("ApplicationHeader")
    /\ [][NextHeaders]_vars

(***************************************************************************)
(* What the claims are stated with.                                        *)
(***************************************************************************)
AllSpace(s) == \A i \in 1..Len(s) : s[i] \in Space

NoEdgeSpace(s) == s = << >> \/ (s[1] \notin Space /\ s[Len(s)] \notin Space)

Contains(s, lit) == \E p \in 1..Len(s) : HasAt(s, p, lit)

\* r is s without its leading and its trailing white space
IsStripped(r, s) ==
    /\ NoEdgeSpace(r)
    /\ \E i \in 0..Len(s) : \E j \in 0..(Len(s) - i) :
          /\ r = SubSeq(s, i + 1, Len(s) - j)
          /\ AllSpace(SubSeq(s, 1, i))
          /\ AllSpace(SubSeq(s, Len(s) - j + 1, Len(s)))

\* every field of the object o of class k is None
Unset(k, o) ==
    CASE k = "MT10x" ->
           /\ o.basic_header = None /\ o.application_header = None
           /\ o.user_header = None /\ o.text = None /\ o.trailer = None
      [] k = "BasicHeader" ->
           /\ o.application_id = None /\ o.service_id = None
           /\ o.logical_terminal_address = None /\ o.session_number = None
           /\ o.sequence_number = None
      [] k = "ApplicationHeader" ->
           /\ o.input_output = None /\ o.swift_message_type = None
           /\ o.destination_address = None /\ o.priority = None
           /\ o.delivery_monitoring = None /\ o.obsolescence_period = None
      [] k = "UserHeader" ->
           /\ o.bank_priority_code = None /\ o.message_user_reference = None
           /\ o.service_type_identifier = None
           /\ o.unique_end_to_end_transaction_reference = None
      [] k = "Text" ->
           /\ \A f \in TextFields : o.fields[f] = None
           /\ o.date = None

\* the object reports invalid, to a caller that asked and to one that did not
ReportsInvalid == ~Get(obj).boolean /\ (IsSome(truth) => truth = Some(FALSE))

ReportsValid == Get(obj).boolean /\ (IsSome(truth) => truth = Some(TRUE))

(***************************************************************************)
(* C1 as stated: str(message) is exactly the str the constructor was       *)
(* given, leading and trailing white space included.                       *)
(***************************************************************************)
C1_RoundTripExact ==
    (kind = "MT10x" /\ pc = "built" /\ IsSome(arg) /\ IsSome(out)) => out = arg

(***************************************************************************)
(* C1 amended: raw is the str given without its leading and trailing white *)
(* space (so the str itself when it has none), for a message that parses   *)
(* and for one that does not, it stays that in every state after the       *)
(* construction, and str(message) is raw.                                  *)
(***************************************************************************)
C1_RoundTripStripped ==
    (kind = "MT10x" /\ pc = "built") =>
        /\ IsSome(Get(obj).raw)
        /\ IsStripped(Get(Get(obj).raw), OrEmpty(arg))
        /\ NoEdgeSpace(OrEmpty(arg)) => Get(obj).raw = Some(OrEmpty(arg))
        /\ IsSome(out) => out = Get(obj).raw
        /\ fault = None

\* a valid message given with white space before it, and rendered
C1_Witness ==
    /\ kind = "MT10x" /\ pc = "built" /\ IsSome(out) /\ IsSome(truth)
    /\ Get(obj).boolean
    /\ Get(arg)[1] \in Space
    /\ Get(out) # Get(arg)

(***************************************************************************)
(* C2 as stated: at every level an empty or all-white-space raw str gives  *)
(* an object that reports invalid and has every field unset, without a     *)
(* fault.                                                                  *)
(***************************************************************************)
C2_EmptyOrSpaceAnyLevel ==
    (pc = "built" /\ IsSome(arg) /\ AllSpace(Get(arg))) =>
        ReportsInvalid /\ Unset(kind, Get(obj)) /\ fault = None

(***************************************************************************)
(* C2 amended: at every level an empty raw str, and at the message level   *)
(* an all-white-space one too, gives an object that reports invalid and    *)
(* has every field unset, without a fault.                                 *)
(***************************************************************************)
C2_Empty ==
    (/\ pc = "built" /\ IsSome(arg)
     /\ Get(arg) = << >> \/ (kind = "MT10x" /\ AllSpace(Get(arg)))) =>
        ReportsInvalid /\ Unset(kind, Get(obj)) /\ fault = None

\* a message of white space only, constructed and asked for its truth
C2_Witness ==
    /\ kind = "MT10x" /\ pc = "built" /\ truth = Some(FALSE)
    /\ arg = Some(<< " ", " " >>)

(***************************************************************************)
(* C3: a message whose raw str is not empty and does not match the outer   *)
(* grammar reports invalid and has every sub-entity unset.  A raw str that *)
(* does not start with a brace, one that starts with a block 2 whose       *)
(* payload starts with neither I nor O, and one with block 1 after block 2 *)
(* do not match.                                                           *)
(***************************************************************************)
C3_MessageMismatch ==
    (kind = "MT10x" /\ pc = "built" /\ Get(Get(obj).raw) # << >>) =>
        LET raw == Get(Get(obj).raw)
        IN  /\ ~Get(obj).boolean => ReportsInvalid /\ Unset("MT10x", Get(obj))
            /\ raw[1] # "{" => ~Get(obj).boolean
            /\ (HasAt(raw, 1, <<"{", "2", ":">>) /\ Len(raw) > 3 /\ raw[4] \notin {"I", "O"})
                  => ~Get(obj).boolean
            /\ HasAt(raw, 1, <<"{", "2", ":", "I", "1", "0", "3", "}", "{", "1", ":">>) => ~Get(obj).boolean

\* a message that is a block 2 starting with X
C3_Witness ==
    /\ kind = "MT10x" /\ pc = "built" /\ truth = Some(FALSE)
    /\ arg = Some(<<"{", "2", ":", "X", "1", "0", "3", "}">>)
    /\ Unset("MT10x", Get(obj))

\* the tags of the catalog that introduce the field f
TagsOf(f) ==
    CASE f = "senders_reference" -> {<<":", "2", "0", ":">>}
      [] f = "bank_operation_code" -> {<<":", "2", "3", "B", ":">>}
      [] f = "instruction_code" -> {<<":", "2", "3", "E", ":">>}
      [] f = "transaction_type_code" -> {<<":", "2", "6", "T", ":">>}
      [] f \in {"interbank_settled_currency", "interbank_settled_amount"} -> {<<":", "3", "2", "A", ":">>}
      [] f \in {"original_ordered_currency", "original_ordered_amount"} -> {<<":", "3", "3", "B", ":">>}
      [] f = "exchange_rate" -> {<<":", "3", "6", ":">>}
      [] f = "ordering_customer" -> {<<":", "5", "0", "A", ":">>, <<":", "5", "0", "F", ":">>, <<":", "5", "0", "K", ":">>}
      [] f = "sending_institution" -> {<<":", "5", "1", "A", ":">>}
      [] f = "ordering_institution" -> {<<":", "5", "2", "A", ":">>, <<":", "5", "2", "D", ":">>}
      [] f = "sender_correspondent" -> {<<":", "5", "3", "A", ":">>, <<":", "5", "3", "B", ":">>, <<":", "5", "3", "D", ":">>}
      [] f = "receiver_correspondent" -> {<<":", "5", "4", "A", ":">>, <<":", "5", "4", "B", ":">>, <<":", "5", "4", "D", ":">>}
      [] f = "intermediary" -> {<<":", "5", "6", "A", ":">>, <<":", "5", "6", "C", ":">>, <<":", "5", "6", "D", ":">>}
      [] f = "account_with_institution" -> {<<":", "5", "7", "A", ":">>, <<":", "5", "7", "B", ":">>, <<":", "5", "7", "C", ":">>, <<":", "5", "7", "D", ":">>}
      [] f = "beneficiary" -> {<<":", "5", "9", ":">>, <<":", "5", "9", "A", ":">>}
      [] f = "remittance_information" -> {<<":", "7", "0", ":">>}
      [] f = "details_of_charges" -> {<<":", "7", "1", "A", ":">>}
      [] f = "sender_charges" -> {<<":", "7", "1", "F", ":">>}
      [] f = "receiver_charges" -> {<<":", "7", "1", "G", ":">>}
      [] f = "sender_to_receiver_information" -> {<<":", "7", "2", ":">>}
      [] f = "regulatory_reporting" -> {<<":", "7", "7", "B", ":">>}

\* the positions just after an occurrence in s of a tag of the field f
AfterTag(s, f) ==
    {e \in 1..(Len(s) + 1) :
        \E t \in TagsOf(f) : e > Len(t) /\ HasAt(s, e - Len(t), t)}

\* v is a part of s that starts at or after a position of P
OccursFrom(s, P, v) == \E p \in P : \E q \in p..(Len(s) + 1) : HasAt(s, q, v)

(***************************************************************************)
(* C4 as stated: in a body that reports valid, the field of every tag of   *)
(* the catalog that occurs in the raw body is populated, with a part of    *)
(* the raw body that follows the tag and has no white space at its start   *)
(* or its end, and the field of every tag that does not occur is unset.    *)
(***************************************************************************)
C4_FieldsTrimmed ==
    (kind = "Text" /\ pc = "built" /\ Get(obj).boolean) =>
        \A f \in TextFields :
            LET v == Get(obj).fields[f]
                after == AfterTag(Get(Get(obj).raw), f)
            IN  IF after = {} THEN v = None
                ELSE /\ IsSome(v)
                     /\ NoEdgeSpace(Get(v))
                     /\ OccursFrom(Get(Get(obj).raw), after, Get(v))

\* year, month and day name a day of the calendar
RealDate(y, m, d) ==
    \/ m \in {1, 3, 5, 7, 8, 10, 12} /\ d \in 1..31
    \/ m \in {4, 6, 9, 11} /\ d \in 1..30
    \/ m = 2 /\ d \in 1..28
    \/ m = 2 /\ d = 29 /\ y % 4 = 0 /\ (y % 100 # 0 \/ y % 400 = 0)

\* the first position of s where lit is, 0 when it is nowhere
FirstAt(s, lit) ==
    IF Contains(s, lit) THEN CHOOSE p \in 1..Len(s) :
                                HasAt(s, p, lit) /\ \A q \in 1..(p - 1) : ~HasAt(s, q, lit)
    ELSE 0

TwoDigits(s, p) == 10 * DigitValue(s[p]) + DigitValue(s[p + 1])

\* s with the six characters from p on replaced by 180117
Redated(s, p) == SubSeq(s, 1, p - 1) \o <<"1", "8", "0", "1", "1", "7">> \o SubSeq(s, p + 6, Len(s))

(***************************************************************************)
(* C5: in a body that reports valid and whose :32A: field was extracted,   *)
(* the date is the day (2000 + YY, MM, DD) of the six digits after :32A:   *)
(* when that is a day of the calendar (180117 gives 2018-01-17) and is     *)
(* unset when it is not; it is unset too when the body has no :32A: field. *)
(* No fault is raised, and validity and every other field are what they    *)
(* are for the same body with the digits 180117.                           *)
(***************************************************************************)
C5_DateDerivation ==
    (kind = "Text" /\ pc = "built" /\ Get(obj).boolean) =>
        LET raw == Get(Get(obj).raw)
            o == Get(obj)
            p == FirstAt(raw, <<":", "3", "2", "A", ":">>) + 5
        IN  /\ fault = None
            /\ IF IsSome(o.fields["interbank_settled_currency"])
               THEN LET y == 2000 + TwoDigits(raw, p)
                        m == TwoDigits(raw, p + 2)
                        d == TwoDigits(raw, p + 4)
                        same == Text(Some(Redated(raw, p)))
                    IN  /\ p > 5
                        /\ o.date = IF RealDate(y, m, d) THEN Some(<< y, m, d >>) ELSE None
                        /\ HasAt(raw, p, <<"1", "8", "0", "1", "1", "7">>) => o.date = Some(<< 2018, 1, 17 >>)
                        /\ same.boolean /\ same.fields = o.fields
                        /\ same.date = Some(<< 2018, 1, 17 >>)
               ELSE o.date = None
            /\ ~Contains(raw, <<":", "3", "2", "A", ":">>) => o.date = None

\* a valid body whose :32A: field has the month 13: its currency and its
\* amount are extracted and its date is unset
C5_Witness ==
    /\ kind = "Text" /\ pc = "built" /\ truth = Some(TRUE) /\ fault = None
    /\ HasAt(Get(Get(obj).raw), 1, <<":", "3", "2", "A", ":", "1", "8", "1", "3">>)
    /\ Get(obj).fields["interbank_settled_currency"] = Some(<<"U", "S", "D">>)
    /\ Get(obj).fields["interbank_settled_amount"] = Some(<<"1", ",", "5">>)
    /\ Get(obj).date = None

\* a valid body with no :32A: field: its date is unset
C5_WitnessAbsent ==
    /\ kind = "Text" /\ pc = "built" /\ truth = Some(TRUE) /\ fault = None
    /\ ~Contains(Get(Get(obj).raw), <<":", "3", "2", "A", ":">>)
    /\ Get(obj).date = None

\* the values a group of the user header may have, by its tag; the class of
\* {121:} is taken as wide as the source has it here
UserHeaderTags == << <<"{", "1", "1", "3", ":">>, <<"{", "1", "0", "8", ":">>, <<"{", "1", "1", "1", ":">>, <<"{", "1", "2", "1", ":">> >>

UserHeaderAttr(o) ==
    << o.bank_priority_code, o.message_user_reference,
       o.service_type_identifier, o.unique_end_to_end_transaction_reference >>

InValueClass(i, v) ==
    CASE i = 1 -> Len(v) = 4 /\ \A k \in 1..4 : v[k] \in Upper
      [] i = 2 -> Len(v) <= 16 /\ \A k \in 1..Len(v) : v[k] \in Upper \cup Digit
      [] i = 3 -> Len(v) = 3 /\ \A k \in 1..3 : v[k] \in Digit
      [] i = 4 -> /\ Len(v) = 36
                  /\ \A k \in 1..36 :
                        IF k \in {9, 14, 19, 24} THEN v[k] = "-"
                        ELSE IF k = 15 THEN v[k] = "4"
                        ELSE IF k = 20 THEN v[k] \in {"8", "9", "a", "b"}
                        ELSE v[k] \in AlNum

\* the text of s from position p up to the next closing brace
UpToBrace(s, p) ==
    LET ends == {e \in p..Len(s) : s[e] = "}"}
    IN  IF ends = {} THEN SubSeq(s, p, Len(s))
        ELSE SubSeq(s, p, (CHOOSE e \in ends : \A x \in ends : e <= x) - 1)

\* s after its leading group i, s itself when it does not start with the
\* tag of group i, and None when the group it starts with is not well formed
AfterGroup(i, s) ==
    LET tag == UserHeaderTags[i]
        v == UpToBrace(s, Len(tag) + 1)
        end == Len(tag) + Len(v) + 1
    IN  IF ~HasAt(s, 1, tag) THEN Some(s)
        ELSE IF end <= Len(s) /\ InValueClass(i, v) THEN Some(SubSeq(s, end + 1, Len(s)))
        ELSE None

\* what is left of s after the groups 113, 108, 111, 121, each present or
\* not, in that order; None when a group is not well formed
AfterGroups(s) ==
    LET a == AfterGroup(1, s)
        b == IF IsNone(a) THEN None ELSE AfterGroup(2, Get(a))
        c == IF IsNone(b) THEN None ELSE AfterGroup(3, Get(b))
    IN  IF IsNone(c) THEN None ELSE AfterGroup(4, Get(c))

InUserHeaderGrammar(s) == AfterGroups(s) = Some(<< >>)

\* the groups present are populated with their values, the others are unset
GroupsPopulated(o) ==
    \A i \in 1..4 :
        LET p == FirstAt(Get(o.raw), UserHeaderTags[i])
        IN  UserHeaderAttr(o)[i] =
                IF p = 0 THEN None
                ELSE Some(UpToBrace(Get(o.raw), p + Len(UserHeaderTags[i])))

(***************************************************************************)
(* C6 as stated: a user header whose raw str is not empty and is not made  *)
(* of the groups {113:}{108:}{111:}{121:}, each present or not, in that    *)
(* order and with values of their classes, reports invalid and has its     *)
(* four fields unset; one that is made so reports valid, has the groups    *)
(* present populated and the others unset.                                 *)
(***************************************************************************)
C6_AllOrNothing ==
    (kind = "UserHeader" /\ pc = "built" /\ Truthy(arg)) =>
        IF InUserHeaderGrammar(Get(arg))
        THEN ReportsValid /\ GroupsPopulated(Get(obj))
        ELSE ReportsInvalid /\ Unset("UserHeader", Get(obj))

(***************************************************************************)
(* What holds of the user header: the statement above for a grammar that   *)
(* lets one line feed follow the groups.                                   *)
(***************************************************************************)
UserHeaderAllOrNothingBeforeLineFeed ==
    (kind = "UserHeader" /\ pc = "built" /\ Truthy(arg)) =>
        IF AfterGroups(Get(arg)) \in {Some(<< >>), Some(<< "\n" >>)}
        THEN ReportsValid /\ GroupsPopulated(Get(obj))
        ELSE ReportsInvalid /\ Unset("UserHeader", Get(obj))

HexDigit == Digit \cup {"a", "b", "c", "d", "e", "f", "A", "B", "C", "D", "E", "F"}

\* v is made of groups of 8, 4, 4, 4 and 12 hex digits with hyphens between
\* them, the third starting with 4 and the fourth with one of 8, 9, a, b
IsUuid4(v) ==
    /\ Len(v) = 36
    /\ \A k \in 1..36 :
          IF k \in {9, 14, 19, 24} THEN v[k] = "-" ELSE v[k] \in HexDigit
    /\ v[15] = "4"
    /\ v[20] \in {"8", "9", "a", "b"}

(***************************************************************************)
(* C7 as stated: a user header that is one {121:} group reports valid, and *)
(* has the value as its transaction reference, if and only if the value is *)
(* made of hex digits in groups of 8-4-4-4-12 with the version 4 and a     *)
(* variant among 8, 9, a, b.  (A value whose variant is A or B, which the  *)
(* statement leaves open, is not judged.)                                  *)
(***************************************************************************)
C7_UuidAccepted ==
    (/\ kind = "UserHeader" /\ pc = "built" /\ Truthy(arg)
     /\ HasAt(Get(arg), 1, <<"{", "1", "2", "1", ":">>)
     /\ Get(arg) = <<"{", "1", "2", "1", ":">> \o UpToBrace(Get(arg), 6) \o <<"}">>) =>
        LET v == UpToBrace(Get(arg), 6)
        IN  \/ Len(v) = 36 /\ v[20] \in {"A", "B"}
            \/ IF IsUuid4(v)
               THEN /\ ReportsValid
                    /\ Get(obj).unique_end_to_end_transaction_reference = Some(v)
               ELSE ReportsInvalid /\ Unset("UserHeader", Get(obj))

\* s, from position p on, is white space, then t, then white space, then
\* the sentinel -}
HandedOff(s, p, t) ==
    \E i \in 0..Len(s) : \E j \in 0..Len(s) :
        /\ AllSpace(SubSeq(s, p, p + i - 1))
        /\ HasAt(s, p + i, t)
        /\ AllSpace(SubSeq(s, p + i + Len(t), p + i + Len(t) + j - 1))
        /\ p + i + Len(t) + j - 1 <= Len(s)
        /\ HasAt(s, p + i + Len(t) + j, <<"-", "}">>)

(***************************************************************************)
(* C8 as stated: in a valid message with a block 4, the raw str of the     *)
(* body is what stands between {4: and a closing -} without the white      *)
(* space around it: it does not begin and does not end with a white space  *)
(* character.                                                              *)
(***************************************************************************)
C8_BodyTrimmed ==
    (/\ kind = "MT10x" /\ pc = "built" /\ Get(obj).boolean
     /\ Truthy(Get(Get(obj).text).raw)) =>
        LET raw == Get(Get(obj).raw)
            body == Get(Get(Get(obj).text).raw)
        IN  /\ \E p \in 1..Len(raw) :
                  HasAt(raw, p, <<"{", "4", ":">>) /\ HandedOff(raw, p + 3, body)
            /\ NoEdgeSpace(body)

\* the fields of a fixed-width header in their order, and their offsets
HeaderAttr(k, o) ==
    IF k = "BasicHeader"
    THEN << o.application_id, o.service_id, o.logical_terminal_address,
            o.session_number, o.sequence_number >>
    ELSE << o.input_output, o.swift_message_type, o.destination_address,
            o.priority, o.delivery_monitoring, o.obsolescence_period >>

HeaderRanges(k) ==
    IF k = "BasicHeader"
    THEN << << 0, 1 >>, << 1, 3 >>, << 3, 15 >>, << 15, 19 >>, << 19, 25 >> >>
    ELSE << << 0, 1 >>, << 1, 4 >>, << 4, 16 >>, << 16, 17 >>, << 17, 18 >>, << 18, 21 >> >>

IsHeader == kind \in {"BasicHeader", "ApplicationHeader"} /\ pc = "built" /\ IsSome(arg)

\* every field whose offsets lie inside the raw str is that part of it
InsideFieldsAreSlices ==
    LET raw == Get(arg)
        r == HeaderRanges(kind)
    IN  \A i \in 1..Len(r) :
            r[i][2] <= Len(raw) =>
                HeaderAttr(kind, Get(obj))[i] =
                    Some([j \in 1..(r[i][2] - r[i][1]) |-> raw[r[i][1] + j]])

(***************************************************************************)
(* C9 as stated: constructing and rendering a basic or application header  *)
(* from a str of any length raises no fault; when the str is not empty,    *)
(* every field whose offsets lie inside it is that part of it, and every   *)
(* field whose offsets lie wholly beyond its end is unset.                 *)
(***************************************************************************)
C9_BeyondUnset ==
    IsHeader =>
        /\ fault = None
        /\ Get(arg) # << >> =>
              /\ InsideFieldsAreSlices
              /\ \A i \in 1..Len(HeaderRanges(kind)) :
                    HeaderRanges(kind)[i][1] >= Len(Get(arg)) =>
                        HeaderAttr(kind, Get(obj))[i] = None

(***************************************************************************)
(* C9 amended: the same, but a field whose offsets lie wholly beyond the   *)
(* end of a str that is not empty is the empty str, not unset.             *)
(***************************************************************************)
C9_BeyondEmpty ==
    IsHeader =>
        /\ fault = None
        /\ Get(arg) # << >> =>
              /\ InsideFieldsAreSlices
              /\ \A i \in 1..Len(HeaderRanges(kind)) :
                    HeaderRanges(kind)[i][1] >= Len(Get(arg)) =>
                        HeaderAttr(kind, Get(obj))[i] = Some(<< >>)

\* a basic header of ten characters, rendered: its first two fields are
\* whole and its last two lie beyond the end
C9_Witness ==
    /\ kind = "BasicHeader" /\ pc = "built" /\ IsSome(out) /\ fault = None
    /\ Len(Get(arg)) = 10
    /\ Get(obj).service_id = Some(SubSeq(Get(arg), 2, 3))
    /\ Get(obj).session_number = Some(<< >>)
    /\ Get(obj).sequence_number = Some(<< >>)

FreeTextFields ==
    {"ordering_customer", "ordering_institution", "receiver_correspondent",
     "intermediary", "account_with_institution", "beneficiary",
     "remittance_information", "details_of_charges",
     "sender_to_receiver_information", "regulatory_reporting"}

\* a colon and two digits are in s at position p
TagStartAt(s, p) ==
    p + 2 <= Len(s) /\ s[p] = ":" /\ s[p + 1] \in Digit /\ s[p + 2] \in Digit

(***************************************************************************)
(* C10 as stated: in a body that reports valid, the value of a free-text   *)
(* field ends before the first colon followed by two digits that comes     *)
(* after its tag: the value never has a colon followed by two digits in    *)
(* it.                                                                     *)
(***************************************************************************)
C10_FreeTextBounded ==
    (kind = "Text" /\ pc = "built" /\ Get(obj).boolean) =>
        \A f \in FreeTextFields :
            LET v == Get(obj).fields[f]
            IN  IsSome(v) => \A p \in 1..Len(Get(v)) : ~TagStartAt(Get(v), p)

\* the tags of the catalog in the order of the catalog
Catalog ==
    << {<<":", "2", "0", ":">>}, {<<":", "1", "3", "C", ":">>}, {<<":", "2", "3", "B", ":">>}, {<<":", "2", "3", "E", ":">>}, {<<":", "2", "6", "T", ":">>}, {<<":", "3", "2", "A", ":">>},
       {<<":", "3", "3", "B", ":">>}, {<<":", "3", "6", ":">>}, {<<":", "5", "0", "A", ":">>, <<":", "5", "0", "F", ":">>, <<":", "5", "0", "K", ":">>}, {<<":", "5", "1", "A", ":">>},
       {<<":", "5", "2", "A", ":">>, <<":", "5", "2", "D", ":">>}, {<<":", "5", "3", "A", ":">>, <<":", "5", "3", "B", ":">>, <<":", "5", "3", "D", ":">>},
       {<<":", "5", "4", "A", ":">>, <<":", "5", "4", "B", ":">>, <<":", "5", "4", "D", ":">>}, {<<":", "5", "6", "A", ":">>, <<":", "5", "6", "C", ":">>, <<":", "5", "6", "D", ":">>},
       {<<":", "5", "7", "A", ":">>, <<":", "5", "7", "B", ":">>, <<":", "5", "7", "C", ":">>, <<":", "5", "7", "D", ":">>}, {<<":", "5", "9", ":">>, <<":", "5", "9", "A", ":">>}, {<<":", "7", "0", ":">>},
       {<<":", "7", "1", "A", ":">>}, {<<":", "7", "1", "F", ":">>}, {<<":", "7", "1", "G", ":">>}, {<<":", "7", "2", ":">>}, {<<":", "7", "7", "B", ":">>} >>

\* the places of the catalog whose tag is in s at position p
CatalogPlaces(s, p) == {i \in 1..Len(Catalog) : \E t \in Catalog[i] : HasAt(s, p, t)}

\* a text shaped as a tag (a colon, two digits, at most one capital letter,
\* a colon) is in s at position p
TagShapeAt(s, p) ==
    /\ TagStartAt(s, p)
    /\ \/ p + 3 <= Len(s) /\ s[p + 3] = ":"
       \/ p + 4 <= Len(s) /\ s[p + 3] \in Upper /\ s[p + 4] = ":"

\* s has a tag that is not of the catalog, or two tags of the catalog the
\* later of which comes first in s
OutOfCatalogOrder(s) ==
    \/ \E p \in 1..Len(s) : TagShapeAt(s, p) /\ CatalogPlaces(s, p) = {}
    \/ \E p \in 1..Len(s) : \E q \in (p + 1)..Len(s) :
          \E i \in CatalogPlaces(s, p) : \E j \in CatalogPlaces(s, q) : i > j

(***************************************************************************)
(* C11 as stated: a body in which a tag outside the catalog appears, or in *)
(* which two tags of the catalog appear in the opposite order to that of   *)
(* the catalog, reports invalid.                                           *)
(***************************************************************************)
C11_CatalogOrderOnly ==
    (kind = "Text" /\ pc = "built" /\ Truthy(arg) /\ OutOfCatalogOrder(Get(arg))) =>
        ReportsInvalid

\* the characters of s from position p on that are neither white space nor
\* a colon, up to the first that is
Word(s, p) ==
    LET stops == {e \in p..Len(s) : s[e] \in Space \cup {":"}}
    IN  IF stops = {} THEN SubSeq(s, p, Len(s))
        ELSE SubSeq(s, p, (CHOOSE e \in stops : \A x \in stops : e <= x) - 1)

C13_GrammarsAgree ==
    (/\ kind = "MT10x" /\ pc = "built" /\ Get(obj).boolean
     /\ Truthy(Get(Get(obj).user_header).raw)) =>
        /\ Get(Get(obj).user_header).boolean
        /\ GroupsPopulated(Get(Get(obj).user_header))

=============================================================================
